---- MODULE Spec2Model ----
(***************************************************************************)
(* The GraphQL resolvers of graphql-node (schema/resolvers.js) over the    *)
(* three Mongoose collections products, users and orders.                  *)
(*                                                                         *)
(* A request is one action: the GraphQL argument validation of typeDefs,   *)
(* the resolver's store call, its pubsub.publish and its return or throw.  *)
(* The outcome of the request being answered is kept in `last`.            *)
(*                                                                         *)
(* The store is Mongoose (6 or later: undefined keys of an update are      *)
(* dropped, not written as null).  A collection is the sequence of its     *)
(* documents in natural order; identities are handed out in rising order.  *)
(***************************************************************************)
EXTENDS Integers, Sequences, FiniteSets, TLC

(* ------------------------------ bounds --------------------------------- *)
\* identities the products / users / orders collection can hand out
MaxProducts == 2
MaxUsers == 2
MaxOrders == 2
\* committed store writes in one behaviour
MaxWrites == 3
\* times two mutations are taken at once in one behaviour
MaxRounds == 2
\* requests clients send while the process starts
MaxRequests == 5

(* ------------------------------ values --------------------------------- *)
\* a field that is null or not set in a stored document
Null == "null"

StatusEnum == {"ACTIVE", "INACTIVE"}
OrderStatusEnum == {"PENDING", "COMPLETED", "CANCELLED"}
RoleEnum == {"ADMIN", "CUSTOMER"}
\* a value no enum of the schema contains
BadEnum == "BOGUS"

ProductIds == 1..MaxProducts
UserIds == 1..MaxUsers
OrderIds == 1..MaxOrders

\* the argument object of a request: a record holding the supplied arguments only
NoArgs == [k \in {} |-> Null]
Opt(R, k, V) == R \cup {r @@ (k :> v) : r \in R, v \in V}
Req(R, k, V) == {r @@ (k :> v) : r \in R, v \in V}
Has(args, k) == k \in DOMAIN args

(* --------------------------- the document store ------------------------ *)
VARIABLES products, users, orders, nextId, published, writes, last

\* the two mutations in flight at once, and the store as it was when they were taken
VARIABLES tasks, round
\* the process of index.js: startServer, the listener, the requests it has answered
VARIABLE boot

vars == <<products, users, orders, nextId, published, writes, last, tasks, round, boot>>

\* Model.findById(id) / Model.findOne({_id: id}): <<doc>>, or <<>> for null
FindById(coll, id) == SelectSeq(coll, LAMBDA d : d.id = id)

\* Model.find(): every document, in the collection's natural order
FindAll(coll) == coll

\* Model.find({status: s})
FindByStatus(coll, s) == SelectSeq(coll, LAMBDA d : d.status = s)

\* $in: the value is one of the listed ones
InSeq(x, s) == \E i \in 1..Len(s) : s[i] = x

\* a lookup that answers one entry per requested identity, in the order requested
RECURSIVE FindEach(_, _)
FindEach(coll, ids) == IF ids = <<>> THEN <<>> ELSE SelectSeq(coll, LAMBDA d : d.id = Head(ids)) \o FindEach(coll, Tail(ids))

\* Model.find({_id: {$in: ids}}): the matching documents, in the collection's natural order
FindIn(coll, ids) == SelectSeq(coll, LAMBDA d : InSeq(d.id, ids))

\* an update that writes the undefined keys too, emptying the fields the request left out
Emptied(f) == CASE f \in {"price", "total", "user"} -> 0 [] f = "products" -> <<>> [] OTHER -> Null
ApplySetEmptying(doc, upd) == [f \in DOMAIN doc |-> IF f \in DOMAIN upd THEN upd[f] ELSE IF f = "id" THEN doc[f] ELSE Emptied(f)]

\* the update document {a, b, ...} applied with $set: undefined keys are dropped
ApplySet(doc, upd) == [f \in DOMAIN doc |-> IF f \in DOMAIN upd THEN upd[f] ELSE doc[f]]

\* an update sent without its filter: every document of the collection takes the new values
UpdateMany(coll, id, upd) == [i \in 1..Len(coll) |-> ApplySet(coll[i], upd)]

\* Model.findByIdAndUpdate(id, upd, {new: true}): the collection afterwards
FindByIdAndUpdate(coll, id, upd) == [i \in 1..Len(coll) |-> IF coll[i].id = id THEN ApplySet(coll[i], upd) ELSE coll[i]]

\* a delete whose filter is lost: the first document goes, whatever its identity
FindOneAndDelete(coll, id) == IF coll = <<>> THEN coll ELSE Tail(coll)

\* Model.findByIdAndDelete(id): the collection afterwards
FindByIdAndDelete(coll, id) == SelectSeq(coll, LAMBDA d : d.id # id)

Exists(coll, id) == \E i \in 1..Len(coll) : coll[i].id = id

Field(args, k) == IF Has(args, k) THEN args[k] ELSE Null

\* a create that stores every product under one identity
NewProductSameId(id, a) == [id |-> 1, name |-> a.name, price |-> a.price, category |-> Field(a, "category"), status |-> Field(a, "status")]

\* Product.create({name, price, category, status})
NewProduct(id, a) == [id |-> id, name |-> a.name, price |-> a.price, category |-> Field(a, "category"), status |-> Field(a, "status")]

(* ------------------------------ pubsub --------------------------------- *)
\* resolvers.js declares no pubsub: the require and the `new PubSub()` are commented out
PubSubDefined == FALSE

\* the message of the ReferenceError that evaluating `pubsub` raises
PubSubMissing == "pubsub is not defined"
\* the message of an error the store raises (connection lost, ...)
StoreDown == "store unavailable"

Event(topic, key, payload) == [topic |-> topic, key |-> key, payload |-> payload]

\* pubsub.publish(topic, {key: payload}): the published events afterwards
Publish(evs, topic, key, payload) == Append(evs, Event(topic, key, payload))

(* ----------------------------- outcomes -------------------------------- *)
NoErr == [kind |-> "none", prefix |-> "", cause |-> ""]
\* throw new Error(prefix + error.message)
Thrown(prefix, cause) == [kind |-> "Error", prefix |-> prefix, cause |-> cause]
\* GraphQL rejects the request before any resolver runs
Rejected == [kind |-> "GraphQLValidation", prefix |-> "", cause |-> "invalid arguments"]

Idle == [op |-> "none", typ |-> "none", id |-> 0, args |-> NoArgs, existed |-> FALSE,
         outcome |-> "none", value |-> <<>>, bool |-> FALSE, err |-> NoErr,
         stored |-> FALSE, committed |-> FALSE, reachedPublish |-> FALSE,
         resolved |-> <<>>, calls |-> <<>>]

\* the store call each resolver makes first
StoreCall(op) ==
    CASE op = "addProduct" -> "Product.create"
      [] op = "updateProduct" -> "Product.findByIdAndUpdate"
      [] op = "deleteProduct" -> "Product.findByIdAndDelete"
      [] op = "addUser" -> "User.create"
      [] op = "updateUser" -> "User.findByIdAndUpdate"
      [] op = "deleteUser" -> "User.findByIdAndDelete"
      [] op = "addOrder" -> "Order.create"
      [] op = "updateOrder" -> "Order.findByIdAndUpdate"
      [] op = "deleteOrder" -> "Order.findByIdAndDelete"
      [] op = "product" -> "Product.findById"
      [] op = "products" -> "Product.find"
      [] op = "user" -> "User.findById"
      [] op = "users" -> "User.find"
      [] op = "order" -> "Order.findById"
      [] op = "orders" -> "Order.find"

Call(op, typ, id, args, existed) == [Idle EXCEPT !.op = op, !.typ = typ, !.id = id, !.args = args, !.existed = existed]

\* the request is refused by GraphQL's validation of the arguments
Refuse(c) == [c EXCEPT !.outcome = "error", !.err = Rejected]
\* a catch block that throws the store's error on as it came
StoreRethrown(c, prefix) == [c EXCEPT !.outcome = "error", !.err = Thrown("", StoreDown), !.calls = <<StoreCall(c.op)>>]

\* the store call raised: control goes to the catch block
StoreRaised(c, prefix) == [c EXCEPT !.outcome = "error", !.err = Thrown(prefix, StoreDown), !.calls = <<StoreCall(c.op)>>]
\* the store call returned, publish raised: control goes to the catch block
PublishRaised(c, prefix, wrote) == [c EXCEPT !.outcome = "error", !.err = Thrown(prefix, PubSubMissing), !.calls = <<StoreCall(c.op)>>, !.stored = TRUE, !.committed = wrote, !.reachedPublish = TRUE]
\* the resolver returns an entity (or null)
ReturnEntity(c, v, wrote) == [c EXCEPT !.outcome = "value", !.value = v, !.calls = <<StoreCall(c.op)>>, !.stored = TRUE, !.committed = wrote, !.reachedPublish = TRUE]
\* the resolver returns a boolean
ReturnBool(c, b, wrote) == [c EXCEPT !.outcome = "value", !.bool = b, !.calls = <<StoreCall(c.op)>>, !.stored = TRUE, !.committed = wrote, !.reachedPublish = TRUE]

\* a resolver that is not running
IdleTask == [op |-> "none", verb |-> "none", typ |-> "none", id |-> 0, args |-> NoArgs, pc |-> "idle",
             failed |-> FALSE, wrote |-> FALSE, commitNo |-> 0, doc |-> <<>>, err |-> NoErr]
NoTasks == <<IdleTask, IdleTask>>
EmptyStore == [Product |-> <<>>, User |-> <<>>, Order |-> <<>>, nextId |-> [Product |-> 1, User |-> 1, Order |-> 1]]
NoRound == [start |-> EmptyStore, no |-> 0]
\* startServer has completed and the listener is up: the server answers GraphQL requests
Serving == [pc |-> "ready", listening |-> TRUE, connected |-> TRUE, attached |-> TRUE, exitCode |-> 0, answered |-> <<>>]

Init ==
    /\ products = <<>>
    /\ users = <<>>
    /\ orders = <<>>
    /\ nextId = [Product |-> 1, User |-> 1, Order |-> 1]
    /\ published = <<>>
    /\ writes = 0
    /\ last = Idle
    /\ tasks = NoTasks
    /\ round = NoRound
    /\ boot = Serving

(* --------------------------- Product mutations ------------------------- *)
\* requests: addProduct(name: "KeyBoard", price: 99, category: "Electronics", status: ACTIVE) and its variants
PlainProduct == [name |-> "KeyBoard", price |-> 99]
AddProductArgs == Opt({PlainProduct}, "status", StatusEnum) \cup {PlainProduct @@ [category |-> "Electronics", status |-> st] : st \in {"ACTIVE", BadEnum}}
UpdateProductArgs == Opt(Opt(Opt({NoArgs}, "name", {"Mouse"}), "price", {100}), "status", {"INACTIVE"}) \cup {[status |-> BadEnum]}

\* addProduct(name: String!, price: Int!, category: String, status: StatusEnum)
ValidAddProduct(a) == Has(a, "name") /\ Has(a, "price") /\ (Has(a, "status") => a.status \in StatusEnum)
\* updateProduct(id: ID!, name: String, price: Int, category: String, status: StatusEnum)
ValidUpdateProduct(a) == Has(a, "status") => a.status \in StatusEnum

addProduct(a, up) ==
    LET c == Call("addProduct", "Product", 0, a, FALSE)
        doc == NewProduct(nextId.Product, a)
    IN  IF ~ValidAddProduct(a)
        THEN /\ last' = Refuse(c)
             /\ UNCHANGED <<products, users, orders, nextId, published, writes>>
        ELSE IF ~up
        THEN /\ last' = StoreRaised(c, "Failed to add product: ")
             /\ UNCHANGED <<products, users, orders, nextId, published, writes>>
        ELSE /\ nextId.Product <= MaxProducts
             /\ writes < MaxWrites
             /\ products' = Append(products, doc)
             /\ nextId' = [nextId EXCEPT !.Product = @ + 1]
             /\ writes' = writes + 1
             /\ IF PubSubDefined
                THEN /\ published' = Publish(published, "PRODUCT_ADDED", "productAdded", <<doc>>)
                     /\ last' = ReturnEntity(c, <<doc>>, TRUE)
                ELSE /\ published' = published
                     /\ last' = PublishRaised(c, "Failed to add product: ", TRUE)
             /\ UNCHANGED <<users, orders>>

updateProduct(id, a, up) ==
    LET c == Call("updateProduct", "Product", id, a, Exists(products, id))
        after == FindByIdAndUpdate(products, id, a)
        doc == FindById(after, id)
    IN  IF ~ValidUpdateProduct(a)
        THEN /\ last' = Refuse(c)
             /\ UNCHANGED <<products, users, orders, nextId, published, writes>>
        ELSE IF ~up
        THEN /\ last' = StoreRaised(c, "Failed to update product: ")
             /\ UNCHANGED <<products, users, orders, nextId, published, writes>>
        ELSE /\ Exists(products, id) => writes < MaxWrites
             /\ products' = after
             /\ writes' = IF Exists(products, id) THEN writes + 1 ELSE writes
             /\ IF PubSubDefined
                THEN /\ published' = Publish(published, "PRODUCT_UPDATED", "productUpdated", doc)
                     /\ last' = ReturnEntity(c, doc, Exists(products, id))
                ELSE /\ published' = published
                     /\ last' = PublishRaised(c, "Failed to update product: ", Exists(products, id))
             /\ UNCHANGED <<users, orders, nextId>>

deleteProduct(id, up) ==
    LET c == Call("deleteProduct", "Product", id, NoArgs, Exists(products, id))
    IN  IF ~up
        THEN /\ last' = StoreRaised(c, "Failed to delete product: ")
             /\ UNCHANGED <<products, users, orders, nextId, published, writes>>
        ELSE /\ Exists(products, id) => writes < MaxWrites
             /\ products' = FindByIdAndDelete(products, id)
             /\ writes' = IF Exists(products, id) THEN writes + 1 ELSE writes
             /\ IF PubSubDefined
                THEN /\ published' = Publish(published, "PRODUCT_DELETED", "productDeleted", <<id>>)
                     /\ last' = ReturnBool(c, TRUE, Exists(products, id))
                ELSE /\ published' = published
                     /\ last' = PublishRaised(c, "Failed to delete product: ", Exists(products, id))
             /\ UNCHANGED <<users, orders, nextId>>

(* ----------------------------- User mutations -------------------------- *)
\* User.create({username, email, role})
NewUser(id, a) == [id |-> id, username |-> a.username, email |-> a.email, role |-> a.role]

\* requests: addUser(username: "user_1", email: "user_1@ymail.com", role: CUSTOMER) and its variants
PlainUser == [username |-> "user_1", email |-> "user_1@ymail.com", role |-> "CUSTOMER"]
AddUserArgs == {PlainUser, [PlainUser EXCEPT !.role = BadEnum]}
UpdateUserArgs == Opt(Opt(Opt({NoArgs}, "username", {"user_2"}), "email", {"user_2@ymail.com"}), "role", {"ADMIN"}) \cup {[role |-> BadEnum]}

\* addUser(username: String!, email: String!, role: RoleEnum!)
ValidAddUser(a) == Has(a, "username") /\ Has(a, "email") /\ Has(a, "role") /\ a.role \in RoleEnum
\* updateUser(id: ID!, username: String, email: String, role: RoleEnum)
ValidUpdateUser(a) == Has(a, "role") => a.role \in RoleEnum

addUser(a, up) ==
    LET c == Call("addUser", "User", 0, a, FALSE)
        doc == NewUser(nextId.User, a)
    IN  IF ~ValidAddUser(a)
        THEN /\ last' = Refuse(c)
             /\ UNCHANGED <<products, users, orders, nextId, published, writes>>
        ELSE IF ~up
        THEN /\ last' = StoreRaised(c, "Failed to add user: ")
             /\ UNCHANGED <<products, users, orders, nextId, published, writes>>
        ELSE /\ nextId.User <= MaxUsers
             /\ writes < MaxWrites
             /\ users' = Append(users, doc)
             /\ nextId' = [nextId EXCEPT !.User = @ + 1]
             /\ writes' = writes + 1
             /\ IF PubSubDefined
                THEN /\ published' = Publish(published, "USER_ADDED", "userAdded", <<doc>>)
                     /\ last' = ReturnEntity(c, <<doc>>, TRUE)
                ELSE /\ published' = published
                     /\ last' = PublishRaised(c, "Failed to add user: ", TRUE)
             /\ UNCHANGED <<products, orders>>

updateUser(id, a, up) ==
    LET c == Call("updateUser", "User", id, a, Exists(users, id))
        after == FindByIdAndUpdate(users, id, a)
        doc == FindById(after, id)
    IN  IF ~ValidUpdateUser(a)
        THEN /\ last' = Refuse(c)
             /\ UNCHANGED <<products, users, orders, nextId, published, writes>>
        ELSE IF ~up
        THEN /\ last' = StoreRaised(c, "Failed to update user: ")
             /\ UNCHANGED <<products, users, orders, nextId, published, writes>>
        ELSE /\ Exists(users, id) => writes < MaxWrites
             /\ users' = after
             /\ writes' = IF Exists(users, id) THEN writes + 1 ELSE writes
             /\ IF PubSubDefined
                THEN /\ published' = Publish(published, "USER_UPDATED", "userUpdated", doc)
                     /\ last' = ReturnEntity(c, doc, Exists(users, id))
                ELSE /\ published' = published
                     /\ last' = PublishRaised(c, "Failed to update user: ", Exists(users, id))
             /\ UNCHANGED <<products, orders, nextId>>

\* a deleteUser that takes the user's orders with it
deleteUserCascade(id, up) ==
    LET c == Call("deleteUser", "User", id, NoArgs, Exists(users, id))
    IN  IF ~up
        THEN /\ last' = StoreRaised(c, "Failed to delete user: ")
             /\ UNCHANGED <<products, users, orders, nextId, published, writes>>
        ELSE /\ Exists(users, id) => writes < MaxWrites
             /\ users' = FindByIdAndDelete(users, id)
             /\ orders' = SelectSeq(orders, LAMBDA o : o.user # id)
             /\ writes' = IF Exists(users, id) THEN writes + 1 ELSE writes
             /\ published' = published
             /\ last' = PublishRaised(c, "Failed to delete user: ", Exists(users, id))
             /\ UNCHANGED <<products, nextId>>

deleteUser(id, up) ==
    LET c == Call("deleteUser", "User", id, NoArgs, Exists(users, id))
    IN  IF ~up
        THEN /\ last' = StoreRaised(c, "Failed to delete user: ")
             /\ UNCHANGED <<products, users, orders, nextId, published, writes>>
        ELSE /\ Exists(users, id) => writes < MaxWrites
             /\ users' = FindByIdAndDelete(users, id)
             /\ writes' = IF Exists(users, id) THEN writes + 1 ELSE writes
             /\ IF PubSubDefined
                THEN /\ published' = Publish(published, "USER_DELETED", "userDeleted", <<id>>)
                     /\ last' = ReturnBool(c, TRUE, Exists(users, id))
                ELSE /\ published' = published
                     /\ last' = PublishRaised(c, "Failed to delete user: ", Exists(users, id))
             /\ UNCHANGED <<products, orders, nextId>>

(* ----------------------------- Order mutations ------------------------- *)
\* Order.create({products, user, total, status})
NewOrder(id, a) == [id |-> id, products |-> a.products, user |-> a.user, total |-> a.total, status |-> a.status]

\* requests: addOrder(products: [...], user: ..., total: 200, status: COMPLETED) and its variants
PlainOrder == [products |-> <<1>>, user |-> 1, total |-> 200, status |-> "COMPLETED"]
AddOrderArgs == {[PlainOrder EXCEPT !.products = ps, !.user = u] : ps \in {<<1>>, <<2, 1>>, <<1, 1>>}, u \in {1, 2}} \cup {[PlainOrder EXCEPT !.status = BadEnum]}
UpdateOrderArgs == Opt(Opt(Opt({NoArgs}, "products", {<<2>>}), "user", {2}), "status", {"CANCELLED"}) \cup {[total |-> 300], [status |-> BadEnum]}

\* addOrder(products: [ID!]!, user: ID!, total: Int!, status: OrderStatusEnum!)
ValidAddOrder(a) == Has(a, "products") /\ Has(a, "user") /\ Has(a, "total") /\ Has(a, "status") /\ a.status \in OrderStatusEnum
\* an updateOrder whose status argument is a plain string
ValidUpdateOrderAnyStatus(a) == Has(a, "status") => a.status \in OrderStatusEnum \cup {BadEnum}

\* updateOrder(id: ID!, products: [ID!], user: ID, total: Int, status: OrderStatusEnum)
ValidUpdateOrder(a) == Has(a, "status") => a.status \in OrderStatusEnum

addOrder(a, up) ==
    LET c == Call("addOrder", "Order", 0, a, FALSE)
        doc == NewOrder(nextId.Order, a)
    IN  IF ~ValidAddOrder(a)
        THEN /\ last' = Refuse(c)
             /\ UNCHANGED <<products, users, orders, nextId, published, writes>>
        ELSE IF ~up
        THEN /\ last' = StoreRaised(c, "Failed to add order: ")
             /\ UNCHANGED <<products, users, orders, nextId, published, writes>>
        ELSE /\ nextId.Order <= MaxOrders
             /\ writes < MaxWrites
             /\ orders' = Append(orders, doc)
             /\ nextId' = [nextId EXCEPT !.Order = @ + 1]
             /\ writes' = writes + 1
             /\ IF PubSubDefined
                THEN /\ published' = Publish(published, "ORDER_ADDED", "orderAdded", <<doc>>)
                     /\ last' = ReturnEntity(c, <<doc>>, TRUE)
                ELSE /\ published' = published
                     /\ last' = PublishRaised(c, "Failed to add order: ", TRUE)
             /\ UNCHANGED <<products, users>>

updateOrder(id, a, up) ==
    LET c == Call("updateOrder", "Order", id, a, Exists(orders, id))
        after == FindByIdAndUpdate(orders, id, a)
        doc == FindById(after, id)
    IN  IF ~ValidUpdateOrder(a)
        THEN /\ last' = Refuse(c)
             /\ UNCHANGED <<products, users, orders, nextId, published, writes>>
        ELSE IF ~up
        THEN /\ last' = StoreRaised(c, "Failed to update order: ")
             /\ UNCHANGED <<products, users, orders, nextId, published, writes>>
        ELSE /\ Exists(orders, id) => writes < MaxWrites
             /\ orders' = after
             /\ writes' = IF Exists(orders, id) THEN writes + 1 ELSE writes
             /\ IF PubSubDefined
                THEN /\ published' = Publish(published, "ORDER_UPDATED", "orderUpdated", doc)
                     /\ last' = ReturnEntity(c, doc, Exists(orders, id))
                ELSE /\ published' = published
                     /\ last' = PublishRaised(c, "Failed to update order: ", Exists(orders, id))
             /\ UNCHANGED <<products, users, nextId>>

deleteOrder(id, up) ==
    LET c == Call("deleteOrder", "Order", id, NoArgs, Exists(orders, id))
    IN  IF ~up
        THEN /\ last' = StoreRaised(c, "Failed to delete order: ")
             /\ UNCHANGED <<products, users, orders, nextId, published, writes>>
        ELSE /\ Exists(orders, id) => writes < MaxWrites
             /\ orders' = FindByIdAndDelete(orders, id)
             /\ writes' = IF Exists(orders, id) THEN writes + 1 ELSE writes
             /\ IF PubSubDefined
                THEN /\ published' = Publish(published, "ORDER_DELETED", "orderDeleted", <<id>>)
                     /\ last' = ReturnBool(c, TRUE, Exists(orders, id))
                ELSE /\ published' = published
                     /\ last' = PublishRaised(c, "Failed to delete order: ", Exists(orders, id))
             /\ UNCHANGED <<products, users, nextId>>

(* -------------------------------- queries ------------------------------ *)
\* a query resolver that raises when the store found nothing
ReturnReadStrict(c, v) ==
    IF v = <<>>
    THEN [c EXCEPT !.outcome = "error", !.err = Thrown("Failed to fetch: ", "NotFound"), !.calls = <<StoreCall(c.op)>>, !.stored = TRUE]
    ELSE [c EXCEPT !.outcome = "value", !.value = v, !.calls = <<StoreCall(c.op)>>, !.stored = TRUE]

\* a query resolver returns what the store call returned
ReturnRead(c, v) == [c EXCEPT !.outcome = "value", !.value = v, !.calls = <<StoreCall(c.op)>>, !.stored = TRUE]

\* a product lookup written with findByIdAndDelete: it returns the document and removes it
productRemoving(id, up) ==
    LET c == Call("product", "Product", id, NoArgs, Exists(products, id))
    IN  /\ last' = IF up THEN ReturnRead(c, FindById(products, id)) ELSE StoreRaised(c, "Failed to fetch product: ")
        /\ products' = IF up THEN FindByIdAndDelete(products, id) ELSE products
        /\ UNCHANGED <<users, orders, nextId, published, writes>>

\* Query.product
product(id, up) ==
    LET c == Call("product", "Product", id, NoArgs, Exists(products, id))
    IN  /\ last' = IF up THEN ReturnRead(c, FindById(products, id)) ELSE StoreRaised(c, "Failed to fetch product: ")
        /\ UNCHANGED <<products, users, orders, nextId, published, writes>>

\* products(onlyActive: Boolean)
ProductsArgs == Opt({NoArgs}, "onlyActive", BOOLEAN)

\* a products resolver that drops its filter
ProductsUnfiltered(a) == FindAll(products)

\* Query.products
ProductsResult(a) == IF Has(a, "onlyActive") /\ a.onlyActive THEN FindByStatus(products, "ACTIVE") ELSE FindAll(products)

productsQuery(a, up) ==
    LET c == Call("products", "Product", 0, a, FALSE)
    IN  /\ last' = IF up THEN ReturnRead(c, ProductsResult(a)) ELSE StoreRaised(c, "Failed to fetch products: ")
        /\ UNCHANGED <<products, users, orders, nextId, published, writes>>

\* Query.user
user(id, up) ==
    LET c == Call("user", "User", id, NoArgs, Exists(users, id))
    IN  /\ last' = IF up THEN ReturnRead(c, FindById(users, id)) ELSE StoreRaised(c, "Failed to fetch user: ")
        /\ UNCHANGED <<products, users, orders, nextId, published, writes>>

\* Query.users
usersQuery(up) ==
    LET c == Call("users", "User", 0, NoArgs, FALSE)
    IN  /\ last' = IF up THEN ReturnRead(c, FindAll(users)) ELSE StoreRaised(c, "Failed to fetch users: ")
        /\ UNCHANGED <<products, users, orders, nextId, published, writes>>

\* Order.products: Product.find({_id: {$in: order.products}})
OrderProducts(o) == FindIn(products, o.products)
\* a user resolver that loses what the store found
OrderUserUnresolved(o) == SubSeq(FindById(users, o.user), 1, 0)

\* Order.user: User.findOne({_id: order.user})
OrderUser(o) == FindById(users, o.user)

\* the relationship fields a query selects on Order
Selections == SUBSET {"products", "user"}
\* when the store raises during a request that makes several calls
Outages == {"never", "base", "fields"}

\* a resolution that treats an order whose user is gone as an error
ResolveOrderStrict(o, sel, fieldsUp) ==
    [id |-> o.id,
     products |-> IF "products" \in sel /\ fieldsUp THEN FindIn(products, o.products) ELSE <<>>,
     productsErr |-> IF "products" \in sel /\ ~fieldsUp THEN Thrown("", StoreDown) ELSE NoErr,
     user |-> IF "user" \in sel /\ fieldsUp THEN FindById(users, o.user) ELSE <<>>,
     userErr |-> IF "user" \notin sel THEN NoErr
                 ELSE IF ~fieldsUp THEN Thrown("Failed to fetch user for order: ", StoreDown)
                 ELSE IF FindById(users, o.user) = <<>> THEN Thrown("Failed to fetch user for order: ", "NotFound")
                 ELSE NoErr]

\* GraphQL runs the selected field resolvers of Order on one parent order; a
\* resolver that throws leaves its (nullable) field null and reports the error
ResolveOrder(o, sel, fieldsUp) ==
    [id |-> o.id,
     products |-> IF "products" \in sel /\ fieldsUp THEN OrderProducts(o) ELSE <<>>,
     productsErr |-> IF "products" \in sel /\ ~fieldsUp THEN Thrown("", StoreDown) ELSE NoErr,
     user |-> IF "user" \in sel /\ fieldsUp THEN OrderUser(o) ELSE <<>>,
     userErr |-> IF "user" \in sel /\ ~fieldsUp THEN Thrown("Failed to fetch user for order: ", StoreDown) ELSE NoErr]

\* the store calls the selected field resolvers make on one parent order
FieldCalls(sel) ==
    (IF "products" \in sel THEN <<"Product.find">> ELSE <<>>) \o (IF "user" \in sel THEN <<"User.findOne">> ELSE <<>>)

\* the field resolvers run once for every order of the result
ResolveAll(os, sel, fieldsUp) == [i \in 1..Len(os) |-> ResolveOrder(os[i], sel, fieldsUp)]

RECURSIVE ResolveCalls(_, _)
ResolveCalls(os, sel) == IF os = <<>> THEN <<>> ELSE FieldCalls(sel) \o ResolveCalls(Tail(os), sel)

\* a resolution that looks every referenced type up once for the whole result
ReturnOrdersBatched(c, os, sel, fieldsUp) ==
    [c EXCEPT !.outcome = "value", !.value = os, !.stored = TRUE,
              !.resolved = ResolveAll(os, sel, fieldsUp),
              !.calls = <<StoreCall(c.op)>> \o (IF os = <<>> THEN <<>> ELSE FieldCalls(sel))]

ReturnOrders(c, os, sel, fieldsUp) ==
    [c EXCEPT !.outcome = "value", !.value = os, !.stored = TRUE,
              !.resolved = ResolveAll(os, sel, fieldsUp),
              !.calls = <<StoreCall(c.op)>> \o ResolveCalls(os, sel)]

\* Query.order, then the Order field resolvers
order(id, sel, outage) ==
    LET c == Call("order", "Order", id, [sel |-> sel], Exists(orders, id))
    IN  /\ last' = IF outage = "base" THEN StoreRaised(c, "Failed to fetch order: ")
                   ELSE ReturnOrders(c, FindById(orders, id), sel, outage = "never")
        /\ UNCHANGED <<products, users, orders, nextId, published, writes>>

\* orders(userId: ID)
OrdersArgs == Opt({NoArgs}, "userId", UserIds)

\* Query.orders: the resolver takes no arguments and finds every order
OrdersResult(a) == FindAll(orders)

ordersQuery(a, sel, outage) ==
    LET c == Call("orders", "Order", 0, a @@ [sel |-> sel], FALSE)
    IN  /\ last' = IF outage = "base" THEN StoreRaised(c, "Failed to fetch orders: ")
                   ELSE ReturnOrders(c, OrdersResult(a), sel, outage = "never")
        /\ UNCHANGED <<products, users, orders, nextId, published, writes>>

(* ------------------------------ the server ----------------------------- *)
\* the response of the request leaves the server; the next request can be taken
Respond ==
    /\ last.op # "none"
    /\ last' = Idle
    /\ UNCHANGED <<products, users, orders, nextId, published, writes>>

\* a request is taken when the previous response has left
Ready == last.op = "none"

\* the requests clients send: every argument object while the store answers, one while it is down
Requests(Args, plain) == (Args \X {TRUE}) \cup {<<plain, FALSE>>}
\* the queries on orders: every selection while the store answers, the full one when it fails
OrderReads == (Selections \X {"never"}) \cup ({{"products", "user"}} \X {"base", "fields"})

Next ==
    \/ \E r \in Requests(AddProductArgs, PlainProduct) : Ready /\ addProduct(r[1], r[2]) /\ UNCHANGED <<tasks, round, boot>>
    \/ \E id \in ProductIds, r \in Requests(UpdateProductArgs, [price |-> 100]) : Ready /\ updateProduct(id, r[1], r[2]) /\ UNCHANGED <<tasks, round, boot>>
    \/ \E id \in ProductIds, up \in BOOLEAN : Ready /\ deleteProduct(id, up) /\ UNCHANGED <<tasks, round, boot>>
    \/ \E r \in Requests(AddUserArgs, PlainUser) : Ready /\ addUser(r[1], r[2]) /\ UNCHANGED <<tasks, round, boot>>
    \/ \E id \in UserIds, r \in Requests(UpdateUserArgs, [role |-> "ADMIN"]) : Ready /\ updateUser(id, r[1], r[2]) /\ UNCHANGED <<tasks, round, boot>>
    \/ \E id \in UserIds, up \in BOOLEAN : Ready /\ deleteUser(id, up) /\ UNCHANGED <<tasks, round, boot>>
    \/ \E r \in Requests(AddOrderArgs, PlainOrder) : Ready /\ addOrder(r[1], r[2]) /\ UNCHANGED <<tasks, round, boot>>
    \/ \E id \in OrderIds, r \in Requests(UpdateOrderArgs, [total |-> 300]) : Ready /\ updateOrder(id, r[1], r[2]) /\ UNCHANGED <<tasks, round, boot>>
    \/ \E id \in OrderIds, up \in BOOLEAN : Ready /\ deleteOrder(id, up) /\ UNCHANGED <<tasks, round, boot>>
    \/ \E id \in ProductIds, up \in BOOLEAN : Ready /\ product(id, up) /\ UNCHANGED <<tasks, round, boot>>
    \/ \E r \in Requests(ProductsArgs, NoArgs) : Ready /\ productsQuery(r[1], r[2]) /\ UNCHANGED <<tasks, round, boot>>
    \/ \E id \in UserIds, up \in BOOLEAN : Ready /\ user(id, up) /\ UNCHANGED <<tasks, round, boot>>
    \/ \E up \in BOOLEAN : Ready /\ usersQuery(up) /\ UNCHANGED <<tasks, round, boot>>
    \/ \E id \in OrderIds, r \in OrderReads : Ready /\ order(id, r[1], r[2]) /\ UNCHANGED <<tasks, round, boot>>
    \/ \E a \in OrdersArgs, r \in OrderReads : Ready /\ ordersQuery(a, r[1], r[2]) /\ UNCHANGED <<tasks, round, boot>>
    \/ Respond /\ UNCHANGED <<tasks, round, boot>>

Spec == Init /\ [][Next]_vars

(* ------------------------ concurrent mutations ------------------------- *)
\* the topic each mutation publishes on
Topic(op) ==
    CASE op = "addProduct" -> "PRODUCT_ADDED" [] op = "updateProduct" -> "PRODUCT_UPDATED" [] op = "deleteProduct" -> "PRODUCT_DELETED"
      [] op = "addUser" -> "USER_ADDED" [] op = "updateUser" -> "USER_UPDATED" [] op = "deleteUser" -> "USER_DELETED"
      [] op = "addOrder" -> "ORDER_ADDED" [] op = "updateOrder" -> "ORDER_UPDATED" [] op = "deleteOrder" -> "ORDER_DELETED"
\* the key of the payload object each mutation publishes
Key(op) ==
    CASE op = "addProduct" -> "productAdded" [] op = "updateProduct" -> "productUpdated" [] op = "deleteProduct" -> "productDeleted"
      [] op = "addUser" -> "userAdded" [] op = "updateUser" -> "userUpdated" [] op = "deleteUser" -> "userDeleted"
      [] op = "addOrder" -> "orderAdded" [] op = "updateOrder" -> "orderUpdated" [] op = "deleteOrder" -> "orderDeleted"
\* the message each resolver's catch block puts before the error's own
Prefix(op) ==
    CASE op = "addProduct" -> "Failed to add product: " [] op = "updateProduct" -> "Failed to update product: "
      [] op = "deleteProduct" -> "Failed to delete product: " [] op = "addUser" -> "Failed to add user: "
      [] op = "updateUser" -> "Failed to update user: " [] op = "deleteUser" -> "Failed to delete user: "
      [] op = "addOrder" -> "Failed to add order: " [] op = "updateOrder" -> "Failed to update order: "
      [] op = "deleteOrder" -> "Failed to delete order: " [] op = "product" -> "Failed to fetch product: "
      [] op = "products" -> "Failed to fetch products: " [] op = "user" -> "Failed to fetch user: "
      [] op = "users" -> "Failed to fetch users: " [] op = "order" -> "Failed to fetch order: "
      [] op = "orders" -> "Failed to fetch orders: "

\* the three collections and the identities given out, as one value
StoreNow == [Product |-> products, User |-> users, Order |-> orders, nextId |-> nextId]
MaxOf(typ) == CASE typ = "Product" -> MaxProducts [] typ = "User" -> MaxUsers [] OTHER -> MaxOrders
NewDoc(typ, id, a) == CASE typ = "Product" -> NewProduct(id, a) [] typ = "User" -> NewUser(id, a) [] OTHER -> NewOrder(id, a)

\* the one store call of a mutation, applied to the store: Model.create,
\* Model.findByIdAndUpdate or Model.findByIdAndDelete, each atomic in the store
Write(st, t) ==
    CASE t.verb = "add" -> [st EXCEPT ![t.typ] = Append(@, NewDoc(t.typ, st.nextId[t.typ], t.args)), !.nextId[t.typ] = @ + 1]
      [] t.verb = "update" -> [st EXCEPT ![t.typ] = FindByIdAndUpdate(@, t.id, t.args)]
      [] OTHER -> [st EXCEPT ![t.typ] = FindByIdAndDelete(@, t.id)]
\* whether that store call changes a document
Writes(st, t) == t.verb = "add" \/ Exists(st[t.typ], t.id)
\* what the store call hands back to the resolver: the created document, the
\* document after the update (null when there is none), the removed document
Returned(st, t) ==
    CASE t.verb = "add" -> <<NewDoc(t.typ, st.nextId[t.typ], t.args)>>
      [] t.verb = "update" -> FindById(Write(st, t)[t.typ], t.id)
      [] OTHER -> FindById(st[t.typ], t.id)
\* what the resolver publishes
Payload(t) == IF t.verb = "delete" THEN <<t.id>> ELSE t.doc

\* the mutations clients send at the same time
Mutation(op, verb, typ, id, a) == [op |-> op, verb |-> verb, typ |-> typ, id |-> id, args |-> a]
ConcurrentRequests ==
    {Mutation("addProduct", "add", "Product", 0, PlainProduct @@ [category |-> "Electronics", status |-> "ACTIVE"])}
    \cup {Mutation("updateProduct", "update", "Product", id, a) : id \in ProductIds, a \in {[name |-> "Mouse"], [price |-> 100], [price |-> 120]}}
    \cup {Mutation("deleteProduct", "delete", "Product", id, NoArgs) : id \in ProductIds}
    \cup {Mutation("addUser", "add", "User", 0, PlainUser)}
    \cup {Mutation("updateUser", "update", "User", id, [role |-> "ADMIN"]) : id \in UserIds}
    \cup {Mutation("deleteUser", "delete", "User", id, NoArgs) : id \in UserIds}
    \cup {Mutation("addOrder", "add", "Order", 0, PlainOrder)}
    \cup {Mutation("updateOrder", "update", "Order", id, a) : id \in OrderIds, a \in {[status |-> "CANCELLED"], [total |-> 300]}}
    \cup {Mutation("deleteOrder", "delete", "Order", id, NoArgs) : id \in OrderIds}

\* a client names an identity only after the store has given it out
Known(r) == r.verb = "add" \/ r.id < nextId[r.typ]
Adds(r, typ) == IF r.verb = "add" /\ r.typ = typ THEN 1 ELSE 0
Running(r) == [IdleTask EXCEPT !.op = r.op, !.verb = r.verb, !.typ = r.typ, !.id = r.id, !.args = r.args, !.pc = "called"]

\* two mutations arrive together: both resolvers run up to their awaited store call
\* (the two slots are alike, so a pair of requests is taken in one of its two orders)
Accept(r1, r2) ==
    /\ tasks = NoTasks
    /\ round.no < MaxRounds
    /\ Known(r1) /\ Known(r2)
    /\ r1 = (CHOOSE r \in {r1, r2} : TRUE)
    /\ \A typ \in {"Product", "User", "Order"} : nextId[typ] + Adds(r1, typ) + Adds(r2, typ) - 1 <= MaxOf(typ)
    /\ tasks' = <<Running(r1), Running(r2)>>
    /\ round' = [start |-> StoreNow, no |-> round.no + 1]
    /\ UNCHANGED <<products, users, orders, nextId, published, writes, last, boot>>

\* the store applies the call of resolver i and answers it: the await resumes
StoreStep(i) ==
    LET t == tasks[i]
        after == Write(StoreNow, t)
    IN  /\ t.pc = "called"
        /\ products' = after.Product
        /\ users' = after.User
        /\ orders' = after.Order
        /\ nextId' = after.nextId
        /\ tasks' = [tasks EXCEPT ![i] = [t EXCEPT !.pc = "stored", !.wrote = Writes(StoreNow, t), !.doc = Returned(StoreNow, t),
                                                    !.commitNo = 1 + Cardinality({j \in 1..2 : tasks[j].pc \in {"stored", "done"} /\ ~tasks[j].failed})]]
        /\ UNCHANGED <<published, writes, last, round, boot>>

\* the store call of resolver i raises: control goes to its catch block
StoreFails(i) ==
    LET t == tasks[i]
    IN  /\ t.pc = "called"
        /\ tasks' = [tasks EXCEPT ![i] = [t EXCEPT !.pc = "done", !.failed = TRUE, !.err = Thrown(Prefix(t.op), StoreDown)]]
        /\ UNCHANGED <<products, users, orders, nextId, published, writes, last, round, boot>>

\* resolver i goes on after its await: pubsub.publish, then return or catch
PublishStep(i) ==
    LET t == tasks[i]
    IN  /\ t.pc = "stored"
        /\ IF PubSubDefined
           THEN /\ published' = Publish(published, Topic(t.op), Key(t.op), Payload(t))
                /\ tasks' = [tasks EXCEPT ![i] = [t EXCEPT !.pc = "done"]]
           ELSE /\ published' = published
                /\ tasks' = [tasks EXCEPT ![i] = [t EXCEPT !.pc = "done", !.err = Thrown(Prefix(t.op), PubSubMissing)]]
        /\ UNCHANGED <<products, users, orders, nextId, writes, last, round, boot>>

\* both responses have left the server
Finish ==
    /\ \A i \in 1..2 : tasks[i].pc = "done"
    /\ tasks' = NoTasks
    /\ UNCHANGED <<products, users, orders, nextId, published, writes, last, round, boot>>

NextConcurrent ==
    \/ \E r1, r2 \in ConcurrentRequests : Accept(r1, r2)
    \/ \E i \in 1..2 : StoreStep(i)
    \/ \E i \in 1..2 : StoreFails(i)
    \/ \E i \in 1..2 : PublishStep(i)
    \/ Finish

SpecConcurrent == Init /\ [][NextConcurrent]_vars

(* ------------------------------ index.js ------------------------------- *)
\* the process before its first statement: nothing connected, nothing listening
Started == [pc |-> "start", listening |-> FALSE, connected |-> FALSE, attached |-> FALSE, exitCode |-> 0, answered |-> <<>>]

InitBoot ==
    /\ products = <<>>
    /\ users = <<>>
    /\ orders = <<>>
    /\ nextId = [Product |-> 1, User |-> 1, Order |-> 1]
    /\ published = <<>>
    /\ writes = 0
    /\ last = Idle
    /\ tasks = NoTasks
    /\ round = NoRound
    /\ boot = Started

\* startServer() runs up to `await mongoose.connect` and returns its promise,
\* which nothing awaits; app.listen(4000) is called in the same turn
Launch ==
    /\ boot.pc = "start"
    /\ boot' = [boot EXCEPT !.pc = "connecting"]
    /\ UNCHANGED <<products, users, orders, nextId, published, writes, last, tasks, round>>

\* the listener is bound: the callback of app.listen runs
Listening ==
    /\ boot.pc \notin {"start", "exited"}
    /\ ~boot.listening
    /\ boot' = [boot EXCEPT !.listening = TRUE]
    /\ UNCHANGED <<products, users, orders, nextId, published, writes, last, tasks, round>>

\* mongoose.connect resolves: startServer goes on to `await server.start()`
ConnectDone ==
    /\ boot.pc = "connecting"
    /\ boot' = [boot EXCEPT !.pc = "starting", !.connected = TRUE]
    /\ UNCHANGED <<products, users, orders, nextId, published, writes, last, tasks, round>>

\* server.start resolves: server.applyMiddleware({ app }) attaches /graphql
StartDone ==
    /\ boot.pc = "starting"
    /\ boot' = [boot EXCEPT !.pc = "ready", !.attached = TRUE]
    /\ UNCHANGED <<products, users, orders, nextId, published, writes, last, tasks, round>>

\* mongoose.connect or server.start rejects: the catch block calls process.exit(1)
StartupFails ==
    /\ boot.pc \in {"connecting", "starting"}
    /\ boot' = [boot EXCEPT !.pc = "exited", !.listening = FALSE, !.exitCode = 1]
    /\ UNCHANGED <<products, users, orders, nextId, published, writes, last, tasks, round>>

\* what the app answers to POST /graphql: the Apollo middleware once it is
\* attached, before that Express finds no route
Answer(b) == [at |-> b.pc, status |-> IF b.attached THEN 200 ELSE 404]

\* a client sends POST /graphql to port 4000: the listener accepts it and the app answers
ClientRequest ==
    /\ boot.listening
    /\ Len(boot.answered) < MaxRequests
    /\ boot' = [boot EXCEPT !.answered = Append(@, Answer(boot))]
    /\ UNCHANGED <<products, users, orders, nextId, published, writes, last, tasks, round>>

NextBoot ==
    \/ Launch
    \/ Listening
    \/ ConnectDone
    \/ StartDone
    \/ StartupFails
    \/ ClientRequest

SpecBoot == InitBoot /\ [][NextBoot]_vars

(* =============================== claims ================================ *)
MutationOps == {"addProduct", "updateProduct", "deleteProduct", "addUser", "updateUser", "deleteUser", "addOrder", "updateOrder", "deleteOrder"}
AddOps == {"addProduct", "addUser", "addOrder"}
UpdateOps == {"updateProduct", "updateUser", "updateOrder"}
DeleteOps == {"deleteProduct", "deleteUser", "deleteOrder"}

Coll(typ) == CASE typ = "Product" -> products [] typ = "User" -> users [] OTHER -> orders
Range(s) == {s[i] : i \in 1..Len(s)}
Count(s, x) == Cardinality({i \in 1..Len(s) : s[i] = x})

\* C1: deleteX(id) answers true when the identity was in the store and false
\* when it was not (the second of two deletes in a row), and never an error.
C1_DeleteTrueThenFalse ==
    (last.op \in DeleteOps /\ last.stored) => (last.outcome = "value" /\ last.bool = last.existed)

\* C2: updateX on an identity that is not in the store fails with NotFound.
C2_UpdateMissingIsNotFound ==
    (last.op \in UpdateOps /\ last.stored /\ ~last.existed) => (last.outcome = "error" /\ last.err.cause = "NotFound")

\* what an update of identity id with the arguments a may change in a collection
UpdateFrame(before, after, id, a) ==
    /\ Len(after) = Len(before)
    /\ \A i \in 1..Len(before) :
          IF before[i].id = id
          THEN \A f \in DOMAIN before[i] \ DOMAIN a : after[i][f] = before[i][f]
          ELSE after[i] = before[i]
\* C3: an update leaves every field its request did not supply as it was, and
\* every other entity of the three collections unchanged.
C3_PartialUpdateFrame ==
    [][last'.op \in UpdateOps =>
          /\ UpdateFrame(products, products', IF last'.typ = "Product" THEN last'.id ELSE 0, last'.args)
          /\ UpdateFrame(users, users', IF last'.typ = "User" THEN last'.id ELSE 0, last'.args)
          /\ UpdateFrame(orders, orders', IF last'.typ = "Order" THEN last'.id ELSE 0, last'.args)]_vars
\* updateOrder(2, status: CANCELLED) applied next to another order
C3_Witness ==
    /\ last.op = "updateOrder" /\ last.committed /\ DOMAIN last.args = {"status"}
    /\ Len(orders) = 2 /\ last.id = 2
    /\ orders[2] = [id |-> 2, products |-> <<2, 1>>, user |-> 2, total |-> 200, status |-> "CANCELLED"]

\* C4: a mutation whose store write has committed returns its result, whatever
\* publish does.
C4_PublishFailureKeepsResult ==
    (last.op \in MutationOps /\ last.committed) => last.outcome = "value"

Written(l) ==
    IF l.op \in DeleteOps THEN <<l.id>>
    ELSE IF l.op \in AddOps THEN <<Coll(l.typ)[Len(Coll(l.typ))]>>
    ELSE FindById(Coll(l.typ), l.id)
\* C5: every committed mutation has published exactly one event, on the topic
\* of its entity type and verb, carrying the written entity (or the identity).
C5_OneEventPerWrite ==
    (last.op \in MutationOps /\ last.committed) =>
        /\ Len(published) = writes
        /\ published[Len(published)].topic = Topic(last.op)
        /\ published[Len(published)].payload = Written(last)

C7_OneLookupPerType ==
    (last.op \in {"order", "orders"} /\ last.outcome = "value") =>
        (Count(last.calls, "User.findOne") <= 1 /\ Count(last.calls, "Product.find") <= 1)
\* C7 as amended: each selected relationship field costs one store lookup for
\* every order of the result.
C7_OneLookupPerOrder ==
    (last.op \in {"order", "orders"} /\ last.outcome = "value") =>
        /\ Count(last.calls, "User.findOne") = (IF "user" \in last.args.sel THEN Len(last.value) ELSE 0)
        /\ Count(last.calls, "Product.find") = (IF "products" \in last.args.sel THEN Len(last.value) ELSE 0)
        /\ Len(last.calls) = 1 + Count(last.calls, "User.findOne") + Count(last.calls, "Product.find")
C7_Witness ==
    /\ last.op = "orders" /\ last.outcome = "value" /\ last.args.sel = {"products", "user"}
    /\ Len(last.value) = 2 /\ Len(last.calls) = 5

\* the products field of the i-th order of the result was selected and resolved
Answered(l, i) == "products" \in l.args.sel /\ l.resolved[i].productsErr = NoErr
\* C8: the resolved products of an order follow its sequence of references
\* position by position: same length, entry k the product of reference k.
C8_Positional ==
    (last.op \in {"order", "orders"} /\ last.outcome = "value") =>
        \A i \in 1..Len(last.value) : Answered(last, i) =>
            /\ Len(last.resolved[i].products) = Len(last.value[i].products)
            /\ \A k \in 1..Len(last.value[i].products) :
                  Exists(products, last.value[i].products[k]) => last.resolved[i].products[k].id = last.value[i].products[k]
\* C8 as amended: the resolved products are the stored products some reference
\* of the order names, each once and in the store's order; a reference without
\* a product adds nothing and fails nothing.
C8_StoreOrderOnce ==
    (last.op \in {"order", "orders"} /\ last.outcome = "value") =>
        \A i \in 1..Len(last.value) : Answered(last, i) =>
            LET got == last.resolved[i].products
                refs == Range(last.value[i].products)
            IN  /\ Range(got) = {d \in Range(products) : d.id \in refs}
                /\ \A j, k \in 1..Len(got) : j < k => got[j].id < got[k].id
C8_Witness ==
    /\ last.op = "order" /\ last.outcome = "value" /\ Len(last.value) = 1 /\ Answered(last, 1)
    /\ last.value[1].products = <<2, 1>>
    /\ Len(last.resolved[1].products) = 2
    /\ last.resolved[1].products[1].id = 1

\* C9: products(onlyActive: true) returns exactly the stored products whose
\* status is ACTIVE.
C9_ActiveOnly ==
    (last.op = "products" /\ last.outcome = "value" /\ Has(last.args, "onlyActive") /\ last.args.onlyActive) =>
        /\ Range(last.value) = {d \in Range(products) : d.status = "ACTIVE"}
        /\ Cardinality(Range(last.value)) = Len(last.value)
C9_Witness ==
    /\ last.op = "products" /\ last.outcome = "value" /\ Has(last.args, "onlyActive") /\ last.args.onlyActive
    /\ Len(last.value) = 1 /\ Len(products) = 2
    /\ \E d \in Range(products) : d.status # "ACTIVE"

\* C10: orders(userId: u) returns exactly the stored orders whose user is u.
C10_OrdersOfUser ==
    (last.op = "orders" /\ last.outcome = "value" /\ Has(last.args, "userId")) =>
        Range(last.value) = {o \in Range(orders) : o.user = last.args.userId}

\* the identity was given out by the store and no document holds it any more
Deleted(typ, id) == id < nextId[typ] /\ ~Exists(Coll(typ), id)
\* the user field of the i-th order of the result was selected and the store answered
UserAnswered(l, i) == "user" \in l.args.sel /\ l.resolved[i].userErr.cause # StoreDown
\* C11: once deleteUser(u) has removed u, order(id) for an order that names u
\* still returns that order without an error, its user field null.
C11_OrderOutlivesUser ==
    (last.op = "order" /\ last.outcome = "value" /\ last.existed /\ UserAnswered(last, 1)
        /\ Deleted("User", last.value[1].user)) =>
        /\ last.value = FindById(orders, last.id)
        /\ last.resolved[1].user = <<>>
        /\ last.resolved[1].userErr = NoErr
C11_Witness ==
    /\ last.op = "order" /\ last.outcome = "value" /\ last.existed /\ UserAnswered(last, 1)
    /\ Deleted("User", last.value[1].user)
    /\ last.value = <<[id |-> 1, products |-> <<1>>, user |-> 1, total |-> 200, status |-> "COMPLETED"]>>
    /\ last.resolved[1].user = <<>>

\* C12: deleting a product or a user leaves every order as it was (products,
\* user, total, status), the orders that name the deleted identity included.
C12_DeleteLeavesOrders ==
    [][last'.op \in {"deleteProduct", "deleteUser"} => orders' = orders]_vars
\* a user was deleted and an order still names it
C12_Witness ==
    /\ last.op = "deleteUser" /\ last.committed
    /\ \E i \in 1..Len(orders) : orders[i].user = last.id
    /\ Deleted("User", last.id)


C14_AddProductReturnsEntity ==
    (last.op = "addProduct" /\ last.stored /\ DOMAIN last.args = {"name", "price", "category", "status"}) =>
        /\ last.outcome = "value"
        /\ last.value = <<NewProduct(nextId.Product - 1, last.args)>>
        /\ Exists(products, nextId.Product - 1)


\* both relationship fields of the i-th order of the result were selected and the store answered
BothAnswered(l, i) == UserAnswered(l, i) /\ Answered(l, i)
\* the order names a stored user and, in every entry of products, one stored product
NamesStored(o) == Exists(users, o.user) /\ Len(o.products) > 0 /\ \A k \in 1..Len(o.products) : o.products[k] = o.products[1] /\ Exists(products, o.products[1])
\* C15: with a user and a product created and an order created that names
\* them, order(id) returns the order, its user resolved to that user and its
\* products[0] to the first product named, while neither is deleted.
C15_OrderResolvesBoth ==
    (last.op = "order" /\ last.outcome = "value" /\ last.existed /\ BothAnswered(last, 1) /\ NamesStored(last.value[1])) =>
        /\ last.value = FindById(orders, last.id)
        /\ \E u \in Range(users) : u.id = last.value[1].user /\ last.resolved[1].user = <<u>>
        /\ \E p \in Range(products) : p.id = last.value[1].products[1] /\ last.resolved[1].products[1] = p
        /\ last.resolved[1].userErr = NoErr
C15_Witness ==
    /\ last.op = "order" /\ last.outcome = "value" /\ last.existed /\ BothAnswered(last, 1) /\ NamesStored(last.value[1])
    /\ last.resolved[1].user = <<[id |-> 1, username |-> "user_1", email |-> "user_1@ymail.com", role |-> "CUSTOMER"]>>
    /\ last.resolved[1].products = <<[id |-> 1, name |-> "KeyBoard", price |-> 99, category |-> "Electronics", status |-> "ACTIVE"]>>


Ids(coll) == [i \in 1..Len(coll) |-> coll[i].id]
Unique(coll) == \A i, j \in 1..Len(coll) : i # j => coll[i].id # coll[j].id
\* the identities of a collection over one step: distinct, those of the
\* documents that stay unchanged and in place, a new one never given out before
IdentityStep(before, after, given) ==
    /\ Unique(after)
    /\ \A d \in Range(after) : d.id \in Range(Ids(before)) \/ d.id >= given
    /\ \A i, j \in 1..Len(before) : i < j =>
          \A k, l \in 1..Len(after) : (after[k].id = before[i].id /\ after[l].id = before[j].id) => k < l
\* C16: an identity is given by the store at creation and never changes: no
\* two stored entities of a type share one, and no update changes one.
C16_IdentityStable ==
    [][/\ IdentityStep(products, products', nextId.Product)
       /\ IdentityStep(users, users', nextId.User)
       /\ IdentityStep(orders, orders', nextId.Order)
       /\ last'.op \in UpdateOps => (Ids(products') = Ids(products) /\ Ids(users') = Ids(users) /\ Ids(orders') = Ids(orders))]_vars
\* an update applied to the second of two products
C16_Witness ==
    /\ last.op = "updateProduct" /\ last.committed /\ last.id = 2
    /\ Ids(products) = <<1, 2>>
    /\ products[2].price = 100


\* C17: in every store state every product has a name, a price and a status
\* of ACTIVE or INACTIVE, every user a username, an email and a role of ADMIN
\* or CUSTOMER, every order a total and a status of PENDING, COMPLETED or
\* CANCELLED.
C17_StoredFieldsValid ==
    /\ \A p \in Range(products) : p.name # Null /\ p.price \in Nat /\ p.status \in StatusEnum
    /\ \A u \in Range(users) : u.username # Null /\ u.email # Null /\ u.role \in RoleEnum
    /\ \A o \in Range(orders) : o.total \in Nat /\ o.status \in OrderStatusEnum


\* the request is a create or an update carrying a status or role outside its enumeration
OutsideEnum(l) ==
    /\ l.op \in AddOps \cup UpdateOps
    /\ \/ l.typ = "Product" /\ Has(l.args, "status") /\ l.args.status \notin StatusEnum
       \/ l.typ = "User" /\ Has(l.args, "role") /\ l.args.role \notin RoleEnum
       \/ l.typ = "Order" /\ Has(l.args, "status") /\ l.args.status \notin OrderStatusEnum
\* C18: a create or an update whose status or role is outside its enumeration
\* fails with a validation error before any store call: the store is as it
\* was and nothing is published.
C18_BadEnumRefused ==
    [][OutsideEnum(last') =>
          /\ last'.outcome = "error" /\ last'.err.kind = "GraphQLValidation"
          /\ last'.calls = <<>> /\ ~last'.stored /\ ~last'.reachedPublish
          /\ UNCHANGED <<products, users, orders, published>>]_vars
\* updateOrder(id, status: BOGUS) on a stored order
C18_Witness ==
    /\ last.op = "updateOrder" /\ OutsideEnum(last) /\ last.existed
    /\ last.err = Rejected
    /\ Exists(orders, last.id)


\* the order names a user or a product that no stored document is
Dangling(o) == ~Exists(users, o.user) \/ \E k \in 1..Len(o.products) : ~Exists(products, o.products[k])
\* C19: addOrder succeeds and stores the order even when its user or product
\* references name no stored entity: nothing checks them before the write.
C19_AddOrderUnchecked ==
    (last.op = "addOrder" /\ last.stored /\ Dangling(last.args)) =>
        /\ last.outcome = "value"
        /\ last.value = <<NewOrder(nextId.Order - 1, last.args)>>
        /\ Exists(orders, nextId.Order - 1)

\* the store raised during the first store call of the request
StoreFailed(l) == l.outcome = "error" /\ l.err.cause = StoreDown
\* C20: when the store fails during a query or a mutation, the error the
\* caller gets is the store's own error, not replaced and not rewrapped, and
\* the store call is made once.
C20_StoreErrorUnchanged ==
    /\ StoreFailed(last) => (last.err = Thrown("", StoreDown) /\ last.calls = <<StoreCall(last.op)>>)
    /\ \A i \in 1..Len(last.resolved) :
          /\ last.resolved[i].userErr.cause = StoreDown => last.resolved[i].userErr = Thrown("", StoreDown)
          /\ last.resolved[i].productsErr.cause = StoreDown => last.resolved[i].productsErr = Thrown("", StoreDown)
\* C20 as amended: the caller gets a new Error, the resolver's "Failed to ..."
\* message followed by the store's message; only Order.products lets the
\* store's error through as it came. The store call is made once.
C20_StoreErrorWrapped ==
    /\ StoreFailed(last) =>
          /\ last.err = Thrown(Prefix(last.op), StoreDown)
          /\ last.calls = <<StoreCall(last.op)>>
          /\ ~last.stored /\ ~last.committed
    /\ \A i \in 1..Len(last.resolved) :
          /\ last.resolved[i].userErr.cause = StoreDown => last.resolved[i].userErr = Thrown("Failed to fetch user for order: ", StoreDown)
          /\ last.resolved[i].productsErr.cause = StoreDown => last.resolved[i].productsErr = Thrown("", StoreDown)
          /\ Count(last.calls, "User.findOne") <= Len(last.resolved) /\ Count(last.calls, "Product.find") <= Len(last.resolved)
\* the store fails under updateUser on a stored user
C20_Witness ==
    /\ last.op = "updateUser" /\ StoreFailed(last) /\ last.existed
    /\ last.err.prefix = "Failed to update user: " /\ last.calls = <<"User.findByIdAndUpdate">>


\* C21: publishing a change event on a topic nobody subscribes to (no topic
\* has a subscriber: resolvers declares no Subscription) returns normally and
\* leaves the mutation's result as it is.
C21_PublishWithoutSubscribers ==
    last.reachedPublish => (last.err = NoErr /\ last.outcome = "value")


\* C23: an updateX that succeeds returns the stored entity as it is after the
\* changes, which is what a lookup of the same identity returns next.
C23_UpdateReturnsNew ==
    (last.op \in UpdateOps /\ last.committed) =>
        (last.outcome = "value" /\ last.value # <<>> /\ last.value = FindById(Coll(last.typ), last.id))


Types == {"Product", "User", "Order"}
\* the collection of a type after the step
CollNext(typ) == CASE typ = "Product" -> products' [] typ = "User" -> users' [] OTHER -> orders'
\* the identity was given out and the collection does not hold it
Gone(coll, given, id) == id < given /\ ~Exists(coll, id)
\* what a committed delete of identity id does to its collection
DeleteFrame(before, after, id) ==
    /\ ~Exists(after, id)
    /\ Len(after) = Len(before) - 1
    /\ \A d \in Range(before) : d.id # id => d \in Range(after)
\* C24: once deleteX(id) has removed a stored entity, the lookup of id answers
\* null and the list of its type does not hold it, in every later state; the
\* other entities of the type are as they were.
C24_DeletedStaysGone ==
    [][/\ (last'.op \in DeleteOps /\ last'.committed) => DeleteFrame(Coll(last'.typ), CollNext(last'.typ), last'.id)
       /\ \A typ \in Types : \A id \in 1..(nextId[typ] - 1) :
             Gone(Coll(typ), nextId[typ], id) => Gone(CollNext(typ), nextId'[typ], id)
       /\ (last'.op \in {"product", "user", "order"} /\ last'.stored /\ Gone(CollNext(last'.typ), nextId'[last'.typ], last'.id)) =>
             last'.value = <<>>
       /\ (last'.op \in {"products", "users", "orders"} /\ last'.stored) =>
             \A d \in Range(last'.value) : ~Gone(CollNext(last'.typ), nextId'[last'.typ], d.id)]_vars
\* the second of two products was deleted, then the products were listed
C24_Witness ==
    /\ last.op = "products" /\ last.stored
    /\ Deleted("Product", 2)
    /\ Ids(last.value) = <<1>>


\* C28: a create, update or delete that returns an error has left the store
\* as it was: no mutation both commits its write and reports failure.
C28_ErrorMeansNoWrite ==
    (last.op \in MutationOps /\ last.outcome = "error") => ~last.committed

QueryOps == {"product", "products", "user", "users", "order", "orders"}
\* C29: the six queries and the Order.user and Order.products field resolvers
\* only read: whether they succeed or fail, the three collections are as
\* they were and no change event is published.
C29_QueriesReadOnly ==
    [][last'.op \in QueryOps => UNCHANGED <<products, users, orders, nextId, published>>]_vars
\* orders with both relationship fields resolved over two stored orders
C29_Witness ==
    /\ last.op = "orders" /\ last.outcome = "value" /\ Len(last.value) = 2
    /\ last.args.sel = {"products", "user"}
    /\ Len(last.resolved[1].products) = 1 /\ Len(orders) = 2 /\ Len(products) = 1


\* both mutations taken together have answered
RoundDone == \A i \in 1..2 : tasks[i].pc = "done"
\* what the mutation does to a store when it runs alone (nothing when its store call fails)
Effect(st, t) == IF t.failed THEN st ELSE Write(st, t)
\* the store after the two mutations ran one after the other, a first
Serial(a, b) == Effect(Effect(round.start, tasks[a]), tasks[b])
\* the two mutations are an update or a delete of one stored identity
SameIdentity(t1, t2) == t1.typ = t2.typ /\ t1.verb # "add" /\ t2.verb # "add" /\ t1.id = t2.id
BothCreate(t1, t2) == t1.typ = t2.typ /\ t1.verb = "add" /\ t2.verb = "add"
\* a document without the identity the store gave it
Fields(docs) == [i \in 1..Len(docs) |-> [f \in DOMAIN docs[i] \ {"id"} |-> docs[i][f]]]
\* the mutation got from the store and answered what it gets and answers when it runs alone
AsAlone(t) ==
    \/ t.failed /\ t.err = Thrown(Prefix(t.op), StoreDown) /\ ~t.wrote
    \/ /\ ~t.failed
       /\ t.err = Thrown(Prefix(t.op), PubSubMissing)
       /\ t.wrote = Writes(round.start, t)
       /\ Fields(t.doc) = Fields(Returned(round.start, t))
       /\ t.verb # "add" => t.doc = Returned(round.start, t)
\* C25: two mutations on different identities that run at the same time end,
\* in every interleaving of their steps, in the store state of running them
\* one after the other, and each answers what it answers alone.
C25_DistinctIndependent ==
    (RoundDone /\ ~SameIdentity(tasks[1], tasks[2])) =>
        /\ StoreNow \in {Serial(1, 2), Serial(2, 1)}
        /\ ~BothCreate(tasks[1], tasks[2]) => Serial(1, 2) = Serial(2, 1)
        /\ AsAlone(tasks[1]) /\ AsAlone(tasks[2])
\* updateProduct on two stored products at once, the second resolver's write committed first
C25_Witness ==
    /\ RoundDone /\ ~SameIdentity(tasks[1], tasks[2])
    /\ tasks[1].op = "updateProduct" /\ tasks[2].op = "updateProduct"
    /\ tasks[1].wrote /\ tasks[2].wrote /\ tasks[1].commitNo = 2
    /\ \E i \in 1..2 : products[i].price = 100 /\ products[3 - i].name = "Mouse"

\* C26: two updates of one identity that run at the same time are serialized:
\* the stored entity is, in every interleaving, what one of the two serial
\* orders leaves, and when the two requests supply different fields both
\* changes are in it.
C26_SameIdentitySerialized ==
    (RoundDone /\ SameIdentity(tasks[1], tasks[2]) /\ \A i \in 1..2 : tasks[i].verb = "update" /\ ~tasks[i].failed) =>
        /\ StoreNow \in {Serial(1, 2), Serial(2, 1)}
        /\ (Exists(round.start[tasks[1].typ], tasks[1].id) /\ DOMAIN tasks[1].args \cap DOMAIN tasks[2].args = {}) =>
              LET d == FindById(StoreNow[tasks[1].typ], tasks[1].id)[1]
              IN  \A i \in 1..2 : \A f \in DOMAIN tasks[i].args : d[f] = tasks[i].args[f]
\* updateProduct(1, name) and updateProduct(1, price) at once
C26_Witness ==
    /\ RoundDone /\ SameIdentity(tasks[1], tasks[2])
    /\ tasks[1].op = "updateProduct" /\ tasks[2].op = "updateProduct"
    /\ tasks[1].wrote /\ tasks[2].wrote
    /\ DOMAIN tasks[1].args \cap DOMAIN tasks[2].args = {}
    /\ FindById(products, tasks[1].id)[1].name = "Mouse" /\ FindById(products, tasks[1].id)[1].price = 100

\* the event a mutation publishes
EventOf(t) == Event(Topic(t.op), Key(t.op), Payload(t))
C30_NoRequestBeforeReady ==
    /\ \A k \in 1..Len(boot.answered) : boot.answered[k].at = "ready" /\ boot.answered[k].status = 200
    /\ boot.pc = "exited" => (boot.exitCode = 1 /\ boot.answered = <<>>)
====
